---- MODULE Spec2Model ----
(***************************************************************************)
(* A model of tinybufr's data-section decoder (src/src/reader.rs): the     *)
(* DataReader state machine that walks a tree of resolved descriptors and  *)
(* returns one DataEvent (or one Error) per read_event call (Spec), and of *)
(* the entry points around it: descriptor resolution (SpecResolve), the    *)
(* construction of a reader (SpecNew), the formatting of a Value (SpecFmt),*)
(* the check of the end section after the data (SpecEnd).                  *)
(*                                                                         *)
(* The byte stream is an input: every read of n bits returns some value    *)
(* of n bits (drawn from boundary values of that width) or fails with an   *)
(* I/O error.  TLC's integers are 32 bits wide, so u32 and i64 quantities  *)
(* are kept as two limbs, value = hi * 2^16 + lo with 0 <= lo < 2^16.      *)
(***************************************************************************)
EXTENDS Integers, Sequences, FiniteSets, TLC

\* ------------------------------------------------------------------ bounds

\* number_of_subsets ranges over 0..MaxSubsets
MaxSubsets == 2
\* a delayed replication count read from the stream ranges over 0..MaxCount
MaxCount == 2
\* read_event calls made once the stack is empty and all subsets are done
MaxEofReads == 2

\* ------------------------------------------------- fixed-width arithmetic

Limb == 2^16
HalfLimb == 2^15
MaxI32 == 2^30 + (2^30 - 1)
MinI32 == (-MaxI32) - 1

\* A wide integer hi * 2^16 + lo (an i64 or u64 of the code; hi is signed).
Wide(hi, lo) == [hi |-> hi, lo |-> lo]

\* `v as i64` for an i32 v.
WideOfI32(v) == Wide(v \div Limb, v % Limb)

\* 64-bit addition (no operand of the code comes near the i64 limits).
WideAdd(a, b) == Wide(a.hi + b.hi + ((a.lo + b.lo) \div Limb), (a.lo + b.lo) % Limb)

\* `as u32`: the low 32 bits.
WideAsU32(a) == Wide(a.hi % Limb, a.lo)

\* `as i32` of a u32: the same 32 bits read as two's complement.
U32AsI32(u) == IF u.hi < HalfLimb THEN u.hi * Limb + u.lo ELSE (u.hi - Limb) * Limb + u.lo

\* `as i32` of an i64: truncation to the low 32 bits.
WideAsI32(a) == U32AsI32(WideAsU32(a))

\* `as i8` of an i16.
I16AsI8(v) == ((v + 128) % 256) - 128

\* `1u64 << bit_width`, for bit_width in 0..32.
Shl1U64(bit_width) == IF bit_width < 16 THEN Wide(0, 2^bit_width) ELSE Wide(2^(bit_width - 16), 0)

\* The i32 addition `a + b`: the sum, and whether it left the i32 range.
I32Add(a, b) ==
    LET sum == WideAdd(WideOfI32(a), WideOfI32(b))
    IN  [overflow |-> (sum.hi < -HalfLimb) \/ (sum.hi >= HalfLimb), wrapped |-> WideAsI32(sum)]

\* The u32 addition `a + b`.
U32Add(a, b) ==
    LET sum == WideAdd(a, b)
    IN  [overflow |-> sum.hi >= Limb, wrapped |-> WideAsU32(sum)]

\* The i8 negation `-scale`.
I8Neg(scale) == [overflow |-> scale = -128, wrapped |-> IF scale = -128 THEN -128 ELSE -scale]

\* ------------------------------------------------------------ data model

XY(x, y) == [x |-> x, y |-> y]

\* TableBEntry: the fields the reader uses.
TableBEntry(xy, bits, scale, reference_value) ==
    [xy |-> xy, bits |-> bits, scale |-> scale, reference_value |-> reference_value]

\* ResolvedDescriptor, as reader.rs matches on it.
Data(b) == [kind |-> "Data", b |-> b]
Replication(y, descriptors, delayed_bits) ==
    [kind |-> "Replication", y |-> y, descriptors |-> descriptors, delayed_bits |-> delayed_bits]
Operator(xy) == [kind |-> "Operator", xy |-> xy]
Sequence(d, elements) == [kind |-> "Sequence", d |-> d, elements |-> elements]

\* The descriptor slot of a call that dispatched no descriptor.
NoDescriptor == [kind |-> "None"]

DataSpec(number_of_subsets, is_compressed, root_descriptors) ==
    [number_of_subsets |-> number_of_subsets, is_compressed |-> is_compressed,
     root_descriptors |-> root_descriptors]

\* Value
Missing == [tag |-> "Missing"]
Decimal(v, s) == [tag |-> "Decimal", v |-> v, s |-> s]
Integer(v) == [tag |-> "Integer", v |-> v]
String(s) == [tag |-> "String", s |-> s]
\* Not a Value: the evaluation aborted in an overflow check.
Panic(why) == [tag |-> "Panic", why |-> why]

\* DataEvent
SubsetStart(i) == [tag |-> "SubsetStart", idx |-> i]
SubsetEnd == [tag |-> "SubsetEnd"]
CompressedStart == [tag |-> "CompressedStart"]
ReplicationStart(idx, count) == [tag |-> "ReplicationStart", idx |-> idx, count |-> count]
ReplicationItemStart == [tag |-> "ReplicationItemStart"]
ReplicationItemEnd == [tag |-> "ReplicationItemEnd"]
ReplicationEnd == [tag |-> "ReplicationEnd"]
SequenceStart(idx, xy) == [tag |-> "SequenceStart", idx |-> idx, xy |-> xy]
SequenceEnd == [tag |-> "SequenceEnd"]
OperatorHandled(idx, x, value) == [tag |-> "OperatorHandled", idx |-> idx, x |-> x, value |-> value]
DataEv(idx, xy, value) == [tag |-> "Data", idx |-> idx, xy |-> xy, value |-> value]
CompressedData(idx, xy, values) == [tag |-> "CompressedData", idx |-> idx, xy |-> xy, values |-> values]
Eof == [tag |-> "Eof"]

\* Error: what read_event returns instead of an event.
Err(kind) == [tag |-> "Err", kind |-> kind]

\* StackEntry
new_sequence(descriptors) ==
    [descriptors |-> descriptors, next |-> 0,
     entry_type |-> [type |-> "Sequence"]]

\* A replication frame that starts at its first child, like a sequence frame.
new_replication_at_first_child(descriptors, count) ==
    [descriptors |-> descriptors, next |-> 0,
     entry_type |-> [type |-> "Replication", remaining |-> count, in_item |-> FALSE]]

new_replication(descriptors, count) ==
    [descriptors |-> descriptors, next |-> Len(descriptors),
     entry_type |-> [type |-> "Replication", remaining |-> count, in_item |-> FALSE]]

\* ------------------------------------------------------------ the inputs

\* The largest value of `bits` bits, the value with only the top bit set, and
\* a value minus one, as u32 limbs (bits in 0..32).
AllOnes(bits) == IF bits <= 16 THEN Wide(0, 2^bits - 1) ELSE Wide(2^(bits - 16) - 1, Limb - 1)
TopBit(bits) ==
    IF bits = 0 THEN Wide(0, 0)
    ELSE IF bits <= 16 THEN Wide(0, 2^(bits - 1)) ELSE Wide(2^(bits - 17), 0)
Pred(u) == IF u = Wide(0, 0) THEN u ELSE WideAsU32(WideAdd(u, WideOfI32(-1)))

\* What a successful read of `bits` bits may return: the boundary values of
\* that width and, for a 16-bit field, a value of four decimal digits.
RawChoices(bits) ==
    {Wide(0, 0), Pred(TopBit(bits)), TopBit(bits), Pred(AllOnes(bits)), AllOnes(bits)}
        \cup (IF bits = 16 THEN {Wide(0, 1234)} ELSE {})

\* What the 6-bit nbinc field may hold, and what an increment of nbinc bits
\* may hold (nbinc <= 32).
NbincChoices == {0, 1, 32, 33}
IncChoices(nbinc) == {Wide(0, 0), AllOnes(nbinc)}

\* A delayed replication count of delayed_bits bits.
CountChoices(delayed_bits) == {c \in 0..MaxCount : c < 2^delayed_bits}

\* One read of the bit reader, as recorded in the trace.
ReadOf(bits, val) == [bits |-> bits, val |-> val]

\* ----------------------------------------------------------------- state

VARIABLES
    data_spec,           \* DataReader.data_spec
    overflow_checks,     \* the build: TRUE when integer overflow panics
    current_subset_idx,  \* DataReader.current_subset_idx
    bitpos,              \* bits the BitReader has consumed after the header
    stack,               \* DataReader.stack
    temporary_operator,  \* DataReader.temporary_operator: <<>> or <<xy>>
    scale_offset,        \* DataReader.scale_offset
    events,              \* what each read_event call returned, dispatched and read
    panic,               \* "" or the overflow check that aborted the program
    stream_ended,        \* a read has run into the end of the byte stream
    monitor,             \* the blocks the events returned so far have left open
    eofReads,            \* read_event calls answered by the Eof early return
    construction,        \* DataReader::new: the octets before the data, the
                         \* position of the byte reader, the result
    dds,                 \* the DataDescriptionSection given to from_data_description
    resolution,          \* what resolve_descriptors returned for dds.descriptors
    formatted,           \* a Value and the text its Debug formatting wrote
    end_section          \* ensure_end_section: the edition, the octets of the
                         \* stream, the result

\* What the entry points other than read_event work on.
others == <<construction, dds, resolution, formatted, end_section>>

vars == <<data_spec, overflow_checks, current_subset_idx, bitpos, stack,
          temporary_operator, scale_offset, events, panic, stream_ended, monitor,
          eofReads, construction, dds, resolution, formatted, end_section>>

\* One read_event call: its result, the descriptor it dispatched, its reads.
Call(ev, desc, reads) == [ev |-> ev, desc |-> desc, reads |-> reads]

\* ----------------------------------------------- the observer of events

\* The observer reads nothing but the results of read_event.  It keeps the
\* blocks that the events have opened and not yet closed, innermost last;
\* `bad` names the kind of block whose bracketing an event broke first ("" when
\* none did), `errors` whether a call returned an error.
Block(type) == [type |-> type]
ReplicationBlock(count) ==
    [type |-> "Replication", count |-> count, items |-> 0, in_item |-> FALSE]
NoEvents == [open |-> <<>>, bad |-> "", errors |-> FALSE]

Observe(m, ev) ==
    LET open == m.open
        top == open[Len(open)]
        rest == SubSeq(open, 1, Len(open) - 1)
        Ok(o) == [m EXCEPT !.open = o]
        Bad(why) == [m EXCEPT !.bad = why]
        \* an event of a descriptor: inside a subset, and inside an item when
        \* the innermost block is a replication
        InBody(o) ==
            IF open = <<>> THEN Bad("Subset")
            ELSE IF top.type = "Replication" /\ ~top.in_item THEN Bad("Replication")
            ELSE Ok(o)
        \* the end of a subset: every block inside it is closed
        AtRoot ==
            IF open = <<>> THEN Bad("Subset")
            ELSE IF Len(open) = 1 THEN Ok(<<>>)
            ELSE Bad(top.type)
    IN  IF ev.tag = "Err" THEN [m EXCEPT !.errors = TRUE]
        ELSE IF m.bad # "" THEN m
        ELSE CASE ev.tag \in {"SubsetStart", "CompressedStart"} ->
                    IF open = <<>> THEN Ok(<<Block("Subset")>>) ELSE Bad("Subset")
               [] ev.tag = "SubsetEnd" -> AtRoot
               [] ev.tag = "Eof" -> IF open = <<>> THEN m ELSE AtRoot
               [] ev.tag = "SequenceStart" -> InBody(Append(open, Block("Sequence")))
               [] ev.tag = "SequenceEnd" ->
                    IF open = <<>> \/ top.type = "Subset" THEN Bad("Sequence")
                    ELSE IF top.type = "Replication" THEN Bad("Both")
                    ELSE Ok(rest)
               [] ev.tag = "ReplicationStart" ->
                    InBody(Append(open, ReplicationBlock(ev.count)))
               [] ev.tag = "ReplicationItemStart" ->
                    IF open # <<>> /\ top.type = "Replication" /\ ~top.in_item
                       /\ top.items < top.count
                    THEN Ok(Append(rest, [top EXCEPT !.items = @ + 1, !.in_item = TRUE]))
                    ELSE Bad("Replication")
               [] ev.tag = "ReplicationItemEnd" ->
                    IF open # <<>> /\ top.type = "Replication" /\ top.in_item
                    THEN Ok(Append(rest, [top EXCEPT !.in_item = FALSE]))
                    ELSE Bad("Replication")
               [] ev.tag = "ReplicationEnd" ->
                    IF open # <<>> /\ top.type = "Replication" /\ ~top.in_item
                       /\ top.items = top.count
                    THEN Ok(rest)
                    ELSE Bad("Replication")
               [] OTHER -> InBody(open)

\* ----------------------------------------------------------- the decoder

\* `(1u32 << bit_width) - 1` with the shift amount taken modulo 32.
MissingPattern_u32_shift(bit_width) ==
    WideAsU32(WideAdd(Shl1U64(bit_width % 32), WideOfI32(-1)))

\* `((1u64 << bit_width) - 1) as u32`
MissingPattern(bit_width) == WideAsU32(WideAdd(Shl1U64(bit_width), WideOfI32(-1)))

\* `(b.scale as i16 + self.scale_offset as i16) as i8`
EffectiveScale(b_scale, so) == I16AsI8(b_scale + so)

\* `Value::Integer(v_raw as i32 + ref_value)`
IntegerValue(v_raw, ref_value, checks) ==
    LET sum == I32Add(U32AsI32(v_raw), ref_value)
    IN  IF sum.overflow /\ checks THEN Panic("i32 add") ELSE Integer(sum.wrapped)

\* A Decimal that keeps the scale as its exponent, without the negation.
DecimalValue_scale_kept(v_raw, ref_value, scale, checks) ==
    Decimal(WideAsI32(WideAdd(v_raw, WideOfI32(ref_value))), scale)

\* `Value::Decimal((v_raw as i64 + ref_value as i64) as i32, -scale)`
DecimalValue(v_raw, ref_value, scale, checks) ==
    LET neg == I8Neg(scale)
    IN  IF neg.overflow /\ checks THEN Panic("i8 neg")
        ELSE Decimal(WideAsI32(WideAdd(v_raw, WideOfI32(ref_value))), neg.wrapped)

\* The rule that turns a raw field into a Value.
NumericValue(bit_width, ref_value, scale, v_raw, checks) ==
    IF v_raw = MissingPattern(bit_width) THEN Missing
    ELSE IF scale = 0 THEN IntegerValue(v_raw, ref_value, checks)
    ELSE DecimalValue(v_raw, ref_value, scale, checks)

\* `let v_raw = local_ref_value + inc;` and the rule applied to it.
IncrementedValue(bit_width, ref_value, scale, local_ref_value, inc, checks) ==
    LET sum == U32Add(local_ref_value, inc)
    IN  IF sum.overflow /\ checks THEN Panic("u32 add")
        ELSE NumericValue(bit_width, ref_value, scale, sum.wrapped, checks)

\* The first aborted evaluation among vs, as code that evaluates them in
\* order meets it: [panic |-> why] or, when there is none, [panic |-> ""].
FirstPanic(vs) ==
    IF \E i \in 1..Len(vs) : vs[i].tag = "Panic"
    THEN [panic |-> vs[CHOOSE i \in 1..Len(vs) :
                          /\ vs[i].tag = "Panic"
                          /\ \A j \in 1..(i - 1) : vs[j].tag # "Panic"].why]
    ELSE [panic |-> ""]

\* The common value returned once instead of once per subset.
CompressedValues_single(bit_width, ref_value, scale, local_ref_value, nbinc, incs, n, checks) ==
    IF nbinc = 0
    THEN LET v == NumericValue(bit_width, ref_value, scale, local_ref_value, checks)
         IN  [panic |-> FirstPanic(<<v>>).panic, values |-> <<v>>]
    ELSE LET vs == [i \in 1..Len(incs) |->
                       IncrementedValue(bit_width, ref_value, scale, local_ref_value,
                                        incs[i], checks)]
         IN  [panic |-> FirstPanic(vs).panic, values |-> vs]

\* The values of a CompressedData event; incs holds the increments read.
\* [panic |-> why, values |-> the Vec<Value>].
CompressedValues(bit_width, ref_value, scale, local_ref_value, nbinc, incs, n, checks) ==
    IF nbinc = 0
    THEN LET v == NumericValue(bit_width, ref_value, scale, local_ref_value, checks)
         IN  [panic |-> FirstPanic(<<v>>).panic, values |-> [i \in 1..n |-> v]]
    ELSE LET vs == [i \in 1..Len(incs) |->
                       IncrementedValue(bit_width, ref_value, scale, local_ref_value,
                                        incs[i], checks)]
         IN  [panic |-> FirstPanic(vs).panic, values |-> vs]

\* The subset count compared in compressed mode too.
AtEof_count_only(is_compressed, subset_idx, number_of_subsets) ==
    subset_idx = number_of_subsets

\* The compressed block is taken to be over after a second start.
AtEof_second_start(is_compressed, subset_idx, number_of_subsets) ==
    IF is_compressed THEN subset_idx > 1 ELSE subset_idx = number_of_subsets

\* The early return of read_event.
AtEof(is_compressed, subset_idx, number_of_subsets) ==
    IF is_compressed THEN subset_idx > 0 ELSE subset_idx = number_of_subsets

\* The subset index taken after the counter was incremented.
StartEvent_incremented(is_compressed, subset_idx) ==
    IF is_compressed THEN CompressedStart ELSE SubsetStart(subset_idx + 1)

\* The event that opens a subset.
StartEvent(is_compressed, subset_idx) ==
    IF is_compressed THEN CompressedStart ELSE SubsetStart(subset_idx)

\* The root frame closed by SubsetEnd in compressed mode too.
FrameEndEvent_subset_end(rest, is_compressed) ==
    IF rest # <<>> THEN SequenceEnd ELSE SubsetEnd

\* Every popped frame reported as a sequence.
FrameEndEvent_always_sequence(rest, is_compressed) == SequenceEnd

\* The event that closes a frame popped at its end; rest is the stack left.
FrameEndEvent(rest, is_compressed) ==
    IF rest # <<>> THEN SequenceEnd
    ELSE IF is_compressed THEN Eof ELSE SubsetEnd

\* Operator (2, 0) not told apart from the others.
ScaleOffsetOf_no_reset(y) == I16AsI8(y - 128)

\* The new scale_offset of operator (2, y).
\* Operator (2, y) that takes y itself, without the bias of 128.
ScaleOffsetOf_unbiased(y) == I16AsI8(y)

ScaleOffsetOf(y) == IF y = 0 THEN 0 ELSE I16AsI8(y - 128)

Top == stack[Len(stack)]
Popped == SubSeq(stack, 1, Len(stack) - 1)
AtEnd(f) == f.next >= Len(f.descriptors)
ReplicationAtEnd == Top.entry_type.type = "Replication" /\ AtEnd(Top)

\* `top.next += 1` and the descriptor it steps over.
Advanced == [stack EXCEPT ![Len(stack)].next = @ + 1]
current_desc == Top.descriptors[Top.next + 1]
Dispatches(kind) ==
    /\ panic = ""
    /\ stack # <<>>
    /\ ~AtEnd(Top)
    /\ current_desc.kind = kind

\* The call returns `ev` having read `reads`; the stack becomes newStack.
Returns(ev, desc, reads, newStack, nbits) ==
    /\ events' = Append(events, Call(ev, desc, reads))
    /\ monitor' = Observe(monitor, ev)
    /\ stack' = newStack
    /\ bitpos' = bitpos + nbits
    /\ UNCHANGED <<data_spec, overflow_checks, panic, stream_ended, eofReads, others>>

\* The call returns an I/O error: the stream ended in a read, after `reads`.
Fails(desc, reads, newStack, nbits) ==
    /\ events' = Append(events, Call(Err("Io"), desc, reads))
    /\ monitor' = Observe(monitor, Err("Io"))
    /\ stack' = newStack
    /\ bitpos' = bitpos + nbits
    /\ stream_ended' = TRUE
    /\ UNCHANGED <<data_spec, overflow_checks, panic, eofReads, current_subset_idx,
                   temporary_operator, scale_offset, others>>

\* The call returns an I/O error although the stream has not ended: the bit
\* reader refuses a read wider than the type it is read into, before it takes
\* any bit.
Refused(desc, reads, newStack, nbits) ==
    /\ Returns(Err("Io"), desc, reads, newStack, nbits)
    /\ UNCHANGED <<current_subset_idx, temporary_operator, scale_offset>>

\* The call aborts in an overflow check.
Aborts(why, newStack, nbits) ==
    /\ panic' = why
    /\ stack' = newStack
    /\ bitpos' = bitpos + nbits
    /\ UNCHANGED <<data_spec, overflow_checks, events, stream_ended, monitor, eofReads,
                   current_subset_idx, temporary_operator, scale_offset, others>>

\* read_event, stack empty, nothing left to decode.
ReadEof ==
    /\ panic = ""
    /\ stack = <<>>
    /\ AtEof(data_spec.is_compressed, current_subset_idx, data_spec.number_of_subsets)
    /\ eofReads < MaxEofReads
    /\ eofReads' = eofReads + 1
    /\ events' = Append(events, Call(Eof, NoDescriptor, <<>>))
    /\ monitor' = Observe(monitor, Eof)
    /\ UNCHANGED <<data_spec, overflow_checks, current_subset_idx, bitpos, stack,
                   temporary_operator, scale_offset, panic, stream_ended, others>>

\* A subset start that pushes no frame.
StartSubset_no_push ==
    /\ panic = ""
    /\ stack = <<>>
    /\ ~AtEof(data_spec.is_compressed, current_subset_idx, data_spec.number_of_subsets)
    /\ current_subset_idx' = current_subset_idx + 1
    /\ Returns(StartEvent(data_spec.is_compressed, current_subset_idx), NoDescriptor, <<>>,
               stack, 0)
    /\ UNCHANGED <<temporary_operator, scale_offset>>

\* A subset start that puts the scale offset back to 0.
StartSubset_resetting ==
    /\ panic = ""
    /\ stack = <<>>
    /\ ~AtEof(data_spec.is_compressed, current_subset_idx, data_spec.number_of_subsets)
    /\ current_subset_idx' = current_subset_idx + 1
    /\ scale_offset' = 0
    /\ Returns(StartEvent(data_spec.is_compressed, current_subset_idx), NoDescriptor, <<>>,
               <<new_sequence(data_spec.root_descriptors)>>, 0)
    /\ UNCHANGED temporary_operator

\* read_event, stack empty: the next subset (or the compressed block) starts.
StartSubset ==
    /\ panic = ""
    /\ stack = <<>>
    /\ ~AtEof(data_spec.is_compressed, current_subset_idx, data_spec.number_of_subsets)
    /\ current_subset_idx' = current_subset_idx + 1
    /\ Returns(StartEvent(data_spec.is_compressed, current_subset_idx), NoDescriptor, <<>>,
               <<new_sequence(data_spec.root_descriptors)>>, 0)
    /\ UNCHANGED <<temporary_operator, scale_offset>>

\* process_next_descriptor, a replication frame at its end, inside an item.
ReplicationItemEndStep ==
    /\ panic = ""
    /\ stack # <<>>
    /\ ReplicationAtEnd
    /\ Top.entry_type.in_item
    /\ Returns(ReplicationItemEnd, NoDescriptor, <<>>,
               [stack EXCEPT ![Len(stack)].entry_type.in_item = FALSE], 0)
    /\ UNCHANGED <<current_subset_idx, temporary_operator, scale_offset>>

\* An item start that leaves the count of the items to come as it is.
ReplicationItemStartStep_no_decrement ==
    /\ panic = ""
    /\ stack # <<>>
    /\ ReplicationAtEnd
    /\ ~Top.entry_type.in_item
    /\ Top.entry_type.remaining > 0
    /\ Returns(ReplicationItemStart, NoDescriptor, <<>>,
               [stack EXCEPT ![Len(stack)] =
                   [@ EXCEPT !.next = 0,
                             !.entry_type = [type |-> "Replication",
                                             remaining |-> @.remaining,
                                             in_item |-> TRUE]]], 0)
    /\ UNCHANGED <<current_subset_idx, temporary_operator, scale_offset>>

\* ... between items, with items left.
ReplicationItemStartStep ==
    /\ panic = ""
    /\ stack # <<>>
    /\ ReplicationAtEnd
    /\ ~Top.entry_type.in_item
    /\ Top.entry_type.remaining > 0
    /\ Returns(ReplicationItemStart, NoDescriptor, <<>>,
               [stack EXCEPT ![Len(stack)] =
                   [@ EXCEPT !.next = 0,
                             !.entry_type = [type |-> "Replication",
                                             remaining |-> @.remaining - 1,
                                             in_item |-> TRUE]]], 0)
    /\ UNCHANGED <<current_subset_idx, temporary_operator, scale_offset>>

\* ... between items, with none left.
ReplicationEndStep ==
    /\ panic = ""
    /\ stack # <<>>
    /\ ReplicationAtEnd
    /\ ~Top.entry_type.in_item
    /\ Top.entry_type.remaining = 0
    /\ Returns(ReplicationEnd, NoDescriptor, <<>>, Popped, 0)
    /\ UNCHANGED <<current_subset_idx, temporary_operator, scale_offset>>

\* process_next_descriptor, any other frame at its end.
FrameEnd ==
    /\ panic = ""
    /\ stack # <<>>
    /\ ~ReplicationAtEnd
    /\ AtEnd(Top)
    /\ Returns(FrameEndEvent(Popped, data_spec.is_compressed), NoDescriptor, <<>>, Popped, 0)
    /\ UNCHANGED <<current_subset_idx, temporary_operator, scale_offset>>

\* handle_data_descriptor, bit_width in 0..=32, not compressed.
HandleDataNumeric ==
    /\ Dispatches("Data")
    /\ current_desc.b.bits <= 32
    /\ ~data_spec.is_compressed
    /\ LET b == current_desc.b
           idx == Top.next
           scale == EffectiveScale(b.scale, scale_offset)
       IN  \/ /\ b.bits = 0 \/ ~stream_ended
              /\ \E v_raw \in RawChoices(b.bits) :
                   LET value == NumericValue(b.bits, b.reference_value, scale, v_raw,
                                             overflow_checks)
                   IN  IF value.tag = "Panic"
                       THEN Aborts(value.why, Advanced, b.bits)
                       ELSE /\ Returns(DataEv(idx, b.xy, value), current_desc,
                                       <<ReadOf(b.bits, v_raw)>>, Advanced, b.bits)
                            /\ UNCHANGED <<current_subset_idx, temporary_operator, scale_offset>>
           \/ /\ b.bits > 0
              /\ Fails(current_desc, <<>>, Advanced, 0)

\* handle_data_descriptor, bit_width in 0..=32, compressed.  The increments
\* are read one by one, each value computed as its increment is read; a read
\* of more than 32 bits into a u32 is refused by the bit reader.
HandleDataCompressed ==
    /\ Dispatches("Data")
    /\ current_desc.b.bits <= 32
    /\ data_spec.is_compressed
    /\ LET b == current_desc.b
           idx == Top.next
           n == data_spec.number_of_subsets
           scale == EffectiveScale(b.scale, scale_offset)
           header(local_ref_value, nbinc) ==
               <<ReadOf(b.bits, local_ref_value), ReadOf(6, Wide(0, nbinc))>>
           increments(nbinc, incs) == [i \in 1..Len(incs) |-> ReadOf(nbinc, incs[i])]
       IN  \/ \* every read succeeds
              /\ ~stream_ended
              /\ \E local_ref_value \in RawChoices(b.bits), nbinc \in NbincChoices :
                   /\ nbinc <= 32 \/ n = 0
                   /\ \E incs \in [1..(IF nbinc = 0 THEN 0 ELSE n) -> IncChoices(nbinc)] :
                        LET r == CompressedValues(b.bits, b.reference_value, scale,
                                                  local_ref_value, nbinc, incs, n,
                                                  overflow_checks)
                            nbits == b.bits + 6 + Len(incs) * nbinc
                        IN  IF r.panic # ""
                            THEN Aborts(r.panic, Advanced, nbits)
                            ELSE /\ Returns(CompressedData(idx, b.xy, r.values), current_desc,
                                            header(local_ref_value, nbinc)
                                                \o increments(nbinc, incs),
                                            Advanced, nbits)
                                 /\ UNCHANGED <<current_subset_idx, temporary_operator,
                                                scale_offset>>
           \/ \* the stream ends in local_ref_value or in nbinc
              Fails(current_desc, <<>>, Advanced, 0)
           \/ \* the read of increment k fails, after k - 1 increments
              /\ ~stream_ended
              /\ \E local_ref_value \in RawChoices(b.bits), nbinc \in NbincChoices \ {0} :
                   \E k \in 1..n :
                     /\ nbinc > 32 => k = 1
                     /\ \E incs \in [1..(k - 1) -> IncChoices(nbinc)] :
                          LET r == CompressedValues(b.bits, b.reference_value, scale,
                                                    local_ref_value, nbinc, incs, n,
                                                    overflow_checks)
                              nbits == b.bits + 6 + Len(incs) * nbinc
                              reads == header(local_ref_value, nbinc)
                                           \o increments(nbinc, incs)
                          IN  IF r.panic # "" THEN Aborts(r.panic, Advanced, nbits)
                              ELSE IF nbinc > 32
                              THEN Refused(current_desc, reads, Advanced, nbits)
                              ELSE Fails(current_desc, reads, Advanced, nbits)

\* handle_data_descriptor, a character string: bit_width > 32, a multiple of 8.
HandleDataString ==
    /\ Dispatches("Data")
    /\ current_desc.b.bits > 32
    /\ current_desc.b.bits % 8 = 0
    /\ LET b == current_desc.b
           idx == Top.next
       IN  \/ \* read_to_vec fails
              Fails(current_desc, <<>>, Advanced, 0)
           \/ \* the octets are not UTF-8
              /\ ~stream_ended
              /\ Returns(Err("Fatal"), current_desc, <<>>, Advanced, b.bits)
              /\ UNCHANGED <<current_subset_idx, temporary_operator, scale_offset>>
           \/ /\ ~stream_ended
              /\ data_spec.is_compressed
              /\ Returns(Err("NotSupported"), current_desc, <<>>, Advanced, b.bits)
              /\ UNCHANGED <<current_subset_idx, temporary_operator, scale_offset>>
           \/ /\ ~stream_ended
              /\ ~data_spec.is_compressed
              /\ Returns(DataEv(idx, b.xy, String("text")), current_desc, <<>>, Advanced, b.bits)
              /\ UNCHANGED <<current_subset_idx, temporary_operator, scale_offset>>

\* An unsupported width that gives up the frame of the element.
HandleDataUnsupported_popping ==
    /\ Dispatches("Data")
    /\ current_desc.b.bits > 32
    /\ current_desc.b.bits % 8 # 0
    /\ Returns(Err("Fatal"), current_desc, <<>>, Popped, 0)
    /\ UNCHANGED <<current_subset_idx, temporary_operator, scale_offset>>

\* handle_data_descriptor, any other bit width.
HandleDataUnsupported ==
    /\ Dispatches("Data")
    /\ current_desc.b.bits > 32
    /\ current_desc.b.bits % 8 # 0
    /\ Returns(Err("Fatal"), current_desc, <<>>, Advanced, 0)
    /\ UNCHANGED <<current_subset_idx, temporary_operator, scale_offset>>

\* A replication that reads its delayed count as a whole u16.
HandleReplication_u16_count ==
    /\ Dispatches("Replication")
    /\ LET d == current_desc
           idx == Top.next
       IN  \/ /\ d.y = 0
              /\ d.delayed_bits = 0 \/ ~stream_ended
              /\ \E count \in CountChoices(d.delayed_bits) :
                   Returns(ReplicationStart(idx, count), d,
                           <<ReadOf(16, Wide(0, count))>>,
                           Append(Advanced, new_replication(d.descriptors, count)),
                           16)
              /\ UNCHANGED <<current_subset_idx, temporary_operator, scale_offset>>
           \/ /\ d.y = 0
              /\ d.delayed_bits > 0
              /\ Fails(d, <<>>, Advanced, 0)
           \/ /\ d.y # 0
              /\ Returns(ReplicationStart(idx, d.y), d, <<>>,
                         Append(Advanced, new_replication(d.descriptors, d.y)), 0)
              /\ UNCHANGED <<current_subset_idx, temporary_operator, scale_offset>>

\* handle_replication_descriptor
HandleReplication ==
    /\ Dispatches("Replication")
    /\ LET d == current_desc
           idx == Top.next
       IN  \/ /\ d.y = 0
              /\ d.delayed_bits = 0 \/ ~stream_ended
              /\ \E count \in CountChoices(d.delayed_bits) :
                   Returns(ReplicationStart(idx, count), d,
                           <<ReadOf(d.delayed_bits, Wide(0, count))>>,
                           Append(Advanced, new_replication(d.descriptors, count)),
                           d.delayed_bits)
              /\ UNCHANGED <<current_subset_idx, temporary_operator, scale_offset>>
           \/ /\ d.y = 0
              /\ d.delayed_bits > 0
              /\ Fails(d, <<>>, Advanced, 0)
           \/ /\ d.y # 0
              /\ Returns(ReplicationStart(idx, d.y), d, <<>>,
                         Append(Advanced, new_replication(d.descriptors, d.y)), 0)
              /\ UNCHANGED <<current_subset_idx, temporary_operator, scale_offset>>

\* handle_operator_descriptor with a catch-all arm that keeps every operator
\* other than (2, y) as the temporary operator.
HandleOperator_keeps_any ==
    /\ Dispatches("Operator")
    /\ LET xy == current_desc.xy
           idx == Top.next
       IN  \/ /\ xy.x = 2
              /\ scale_offset' = ScaleOffsetOf(xy.y)
              /\ Returns(OperatorHandled(idx, xy.x, xy.y), current_desc, <<>>, Advanced, 0)
              /\ UNCHANGED <<current_subset_idx, temporary_operator>>
           \/ /\ xy.x # 2
              /\ temporary_operator' = <<xy>>
              /\ Returns(OperatorHandled(idx, xy.x, xy.y), current_desc, <<>>, Advanced, 0)
              /\ UNCHANGED <<current_subset_idx, scale_offset>>

\* handle_operator_descriptor
HandleOperator ==
    /\ Dispatches("Operator")
    /\ LET xy == current_desc.xy
           idx == Top.next
       IN  \/ /\ xy.x = 2
              /\ scale_offset' = ScaleOffsetOf(xy.y)
              /\ Returns(OperatorHandled(idx, xy.x, xy.y), current_desc, <<>>, Advanced, 0)
              /\ UNCHANGED <<current_subset_idx, temporary_operator>>
           \/ /\ xy.x = 6
              /\ temporary_operator' = <<xy>>
              /\ Returns(OperatorHandled(idx, xy.x, xy.y), current_desc, <<>>, Advanced, 0)
              /\ UNCHANGED <<current_subset_idx, scale_offset>>
           \/ /\ xy.x \notin {2, 6}
              /\ Returns(Err("NotSupported"), current_desc, <<>>, Advanced, 0)
              /\ UNCHANGED <<current_subset_idx, temporary_operator, scale_offset>>

\* handle_sequence_descriptor
HandleSequence ==
    /\ Dispatches("Sequence")
    /\ Returns(SequenceStart(Top.next, current_desc.d), current_desc, <<>>,
               Append(Advanced, new_sequence(current_desc.elements)), 0)
    /\ UNCHANGED <<current_subset_idx, temporary_operator, scale_offset>>

\* ------------------------------------------------------- the DataSpecs

\* Table B entries and Table D keys of the structures below.
Flag == Data(TableBEntry(XY(1, 1), 1, 0, 0))
Tenths == Data(TableBEntry(XY(12, 1), 8, 1, -100))
Name == Data(TableBEntry(XY(1, 15), 64, 0, 0))
Odd == Data(TableBEntry(XY(1, 99), 33, 0, 0))
Hundreds == Data(TableBEntry(XY(7, 2), 16, -2, 0))
D1 == XY(1, 1)
D2 == XY(1, 2)

\* Root descriptor lists that exercise the traversal: empty lists, fixed and
\* delayed replication, nesting in both directions, operators, strings, a
\* width operator right before an element, a 16-bit element of scale -2.
Structures ==
    << <<>>,
       <<Flag>>,
       <<Replication(2, <<Flag>>, 0), Sequence(D1, <<>>)>>,
       <<Replication(0, <<Sequence(D1, <<Operator(XY(2, 129))>>), Operator(XY(6, 4))>>, 8), Flag>>,
       <<Sequence(D1, <<Replication(0, <<Replication(0, <<Sequence(D2, <<>>)>>, 1)>>, 2),
                        Replication(1, <<>>, 0)>>)>>,
       <<Operator(XY(2, 127)), Tenths, Operator(XY(1, 3)), Operator(XY(2, 0)), Flag>>,
       <<Name, Odd>>,
       <<Operator(XY(6, 4)), Tenths, Flag>>,
       <<Hundreds>> >>

\* Root descriptor lists that probe the value rule: one operator (2, y) and
\* one element, over the boundary scales, offsets, references and widths.
ScaleProbes ==
    { <<Operator(XY(2, y)), Data(TableBEntry(XY(12, 1), 8, scale, 0))>> :
        y \in {0, 1, 127, 128, 129, 255}, scale \in {-128, -127, -1, 0, 1, 127} }
SumProbes ==
    { <<Data(TableBEntry(XY(12, 1), bits, scale, ref))>> :
        bits \in {0, 1, 8, 31, 32}, scale \in {0, 2}, ref \in {MinI32, -1, 0, 1, MaxI32} }

\* Root descriptor lists that probe the operators: every X next to the two the
\* reader handles and the ends of the 6-bit range, after a scale change and a
\* width operator, before an element.
OperatorProbes ==
    { <<Operator(XY(2, 129)), Operator(XY(6, 4)), Operator(XY(x, y)), Flag>> :
        x \in {0, 1, 3, 5, 7, 63}, y \in {0, 255} }

\* The values of the entry points that have not been called; the construction
\* of a reader that exists, the octets of its header forgotten.
NotCalled == [tag |-> "None"]
Constructed == [octets |-> <<>>, position |-> 4, result |-> "Ok"]

\* The reader as DataReader::new returns it, and the history of its calls.
Fresh ==
    /\ current_subset_idx = 0
    /\ bitpos = 0
    /\ stack = <<>>
    /\ temporary_operator = <<>>
    /\ scale_offset = 0
    /\ events = <<>>
    /\ panic = ""
    /\ stream_ended = FALSE
    /\ monitor = NoEvents
    /\ eofReads = 0

Init ==
    /\ \/ \E i \in 1..Len(Structures), n \in 0..MaxSubsets, c \in BOOLEAN :
            data_spec = DataSpec(n, c, Structures[i])
       \/ \E r \in ScaleProbes \cup SumProbes \cup OperatorProbes, n \in 1..MaxSubsets, c \in BOOLEAN :
            data_spec = DataSpec(n, c, r)
    /\ overflow_checks \in BOOLEAN
    /\ Fresh
    /\ construction = Constructed
    /\ dds = NotCalled
    /\ resolution = NotCalled
    /\ formatted = NotCalled
    /\ end_section = NotCalled

Next ==
    \/ ReadEof
    \/ StartSubset
    \/ ReplicationItemEndStep
    \/ ReplicationItemStartStep
    \/ ReplicationEndStep
    \/ FrameEnd
    \/ HandleDataNumeric
    \/ HandleDataCompressed
    \/ HandleDataString
    \/ HandleDataUnsupported
    \/ HandleReplication
    \/ HandleOperator
    \/ HandleSequence

Spec == Init /\ [][Next]_vars

\* The caller asks for the next event again and again until Eof: a call that
\* can be made is made.
\* The runs start from the root lists that exercise the traversal.
InitLive ==
    /\ \E i \in 1..Len(Structures), n \in 0..MaxSubsets, c \in BOOLEAN :
            data_spec = DataSpec(n, c, Structures[i])
    /\ overflow_checks \in BOOLEAN
    /\ Fresh
    /\ construction = Constructed
    /\ dds = NotCalled
    /\ resolution = NotCalled
    /\ formatted = NotCalled
    /\ end_section = NotCalled

SpecLive == InitLive /\ [][Next]_vars /\ WF_vars(Next)

\* ------------------------------------------------- descriptor resolution

\* The longest raw descriptor list of a data description section.
MaxDescriptors == 3

\* Descriptor (FXY) and its xy().
Descriptor(f, x, y) == [f |-> f, x |-> x, y |-> y]
DescriptorXY(desc) == XY(desc.x, desc.y)

\* ResolvedDescriptor::Replication as descriptor.rs declares it: the XY of the
\* raw descriptor and nothing else.
ReplicationXY(xy) == [kind |-> "Replication", xy |-> xy]

\* TableDEntry: the fields resolution and the reader use.
TableDEntry(xy, elements) == [xy |-> xy, elements |-> elements]

\* HashMap::get: the entry, or nothing.
get(table, key) == IF key \in DOMAIN table THEN <<table[key]>> ELSE <<>>

\* Result of a resolution.
Ok(value) == [tag |-> "Ok", value |-> value]
Fatal(message, key) == [tag |-> "Err", kind |-> "Fatal", message |-> message, xy |-> key]

\* The tables of the model.  Table D holds sequences that resolve (3-01-001,
\* nesting 3-01-002), one whose element is missing from Table B (3-01-003),
\* one that reaches it one level further down (3-01-004) and one that names a
\* sequence missing from Table D (3-01-005).
Tables ==
    [table_b |-> (XY(1, 1) :> Flag.b) @@ (XY(12, 1) :> Tenths.b),
     table_d |->
        (XY(1, 1) :> TableDEntry(XY(1, 1), <<Descriptor(0, 1, 1), Descriptor(3, 1, 2)>>))
        @@ (XY(1, 2) :> TableDEntry(XY(1, 2), <<Descriptor(1, 1, 2), Descriptor(0, 12, 1)>>))
        @@ (XY(1, 3) :> TableDEntry(XY(1, 3), <<Descriptor(0, 1, 1), Descriptor(0, 9, 9)>>))
        @@ (XY(1, 4) :> TableDEntry(XY(1, 4), <<Descriptor(3, 1, 3)>>))
        @@ (XY(1, 5) :> TableDEntry(XY(1, 5), <<Descriptor(3, 9, 9)>>))]

RECURSIVE resolve_descriptors(_, _)

\* ResolvedDescriptor::from_descriptor with a Table D arm that drops the
\* failure of the nested resolution and keeps an empty sequence.
from_descriptor_lenient(desc, tables) ==
    LET key == DescriptorXY(desc)
        b == get(tables.table_b, key)
        d == get(tables.table_d, key)
    IN  CASE desc.f = 0 ->
                IF b = <<>> THEN Fatal("Table B entry not found", key) ELSE Ok(Data(b[1]))
          [] desc.f = 1 -> Ok(ReplicationXY(key))
          [] desc.f = 2 -> Ok(Operator(key))
          [] desc.f = 3 ->
                IF d = <<>> THEN Fatal("Table D entry not found", key)
                ELSE LET resolved_elements == resolve_descriptors(tables, d[1].elements)
                     IN  IF resolved_elements.tag = "Err" THEN Ok(Sequence(d[1], <<>>))
                         ELSE Ok(Sequence(d[1], resolved_elements.value))
          [] OTHER -> Fatal("Table B entry not found", key)

\* ResolvedDescriptor::from_descriptor
from_descriptor(desc, tables) ==
    LET key == DescriptorXY(desc)
        b == get(tables.table_b, key)
        d == get(tables.table_d, key)
    IN  CASE desc.f = 0 ->
                IF b = <<>> THEN Fatal("Table B entry not found", key) ELSE Ok(Data(b[1]))
          [] desc.f = 1 -> Ok(ReplicationXY(key))
          [] desc.f = 2 -> Ok(Operator(key))
          [] desc.f = 3 ->
                IF d = <<>> THEN Fatal("Table D entry not found", key)
                ELSE LET resolved_elements == resolve_descriptors(tables, d[1].elements)
                     IN  IF resolved_elements.tag = "Err" THEN resolved_elements
                         ELSE Ok(Sequence(d[1], resolved_elements.value))
          [] OTHER -> Fatal("Table B entry not found", key)

\* resolve_descriptors: every descriptor resolved in order, the first failure
\* returned in place of the list.
resolve_descriptors(tables, descriptors) ==
    LET results == [i \in 1..Len(descriptors) |-> from_descriptor(descriptors[i], tables)]
        failed == {i \in 1..Len(descriptors) : results[i].tag = "Err"}
    IN  IF failed = {} THEN Ok([i \in 1..Len(descriptors) |-> results[i].value])
        ELSE results[CHOOSE i \in failed : \A j \in failed : i <= j]

\* DataDescriptionSection: the fields from_data_description uses.
DataDescriptionSection(number_of_subsets, is_compressed, descriptors) ==
    [number_of_subsets |-> number_of_subsets, flags |-> [is_compressed |-> is_compressed],
     descriptors |-> descriptors]

\* DataSpec::from_data_description
from_data_description(section, tables) ==
    LET root_descriptors == resolve_descriptors(tables, section.descriptors)
    IN  IF root_descriptors.tag = "Err" THEN root_descriptors
        ELSE Ok(DataSpec(section.number_of_subsets, section.flags.is_compressed,
                         root_descriptors.value))

\* The raw descriptors a section is drawn from: elements with and without a
\* Table B entry, a replication, an operator, sequences that resolve, that
\* fail two levels down and that are missing from Table D, and an F outside
\* 0..3.
RawDescriptors ==
    {Descriptor(0, 1, 1), Descriptor(0, 9, 9), Descriptor(1, 1, 1), Descriptor(2, 2, 129),
     Descriptor(3, 1, 1), Descriptor(3, 1, 4), Descriptor(3, 1, 5), Descriptor(4, 0, 0)}

RECURSIVE Lists(_, _)
Lists(S, n) ==
    IF n = 0 THEN {<<>>}
    ELSE Lists(S, n - 1) \cup {Append(l, e) : l \in {k \in Lists(S, n - 1) : Len(k) = n - 1}, e \in S}

\* No reader and no DataSpec exist yet.
NoReader ==
    /\ current_subset_idx = NotCalled
    /\ bitpos = NotCalled
    /\ stack = NotCalled
    /\ temporary_operator = NotCalled
    /\ scale_offset = NotCalled
    /\ events = NotCalled
    /\ panic = NotCalled
    /\ stream_ended = NotCalled
    /\ monitor = NotCalled
    /\ eofReads = NotCalled

InitResolve ==
    /\ \E n \in 0..MaxSubsets, c \in BOOLEAN, l \in Lists(RawDescriptors, MaxDescriptors) :
            dds = DataDescriptionSection(n, c, l)
    /\ data_spec = NotCalled
    /\ resolution = NotCalled
    /\ overflow_checks \in BOOLEAN
    /\ NoReader
    /\ construction = NotCalled
    /\ formatted = NotCalled
    /\ end_section = NotCalled

\* The caller builds the DataSpec of the section.
FromDataDescription ==
    /\ resolution = NotCalled
    /\ resolution' = resolve_descriptors(Tables, dds.descriptors)
    /\ data_spec' = from_data_description(dds, Tables)
    /\ UNCHANGED <<overflow_checks, current_subset_idx, bitpos, stack, temporary_operator,
                   scale_offset, events, panic, stream_ended, monitor, eofReads,
                   construction, dds, formatted, end_section>>

NextResolve == FromDataDescription

SpecResolve == InitResolve /\ [][NextResolve]_vars

\* ---------------------------------------------------- formatting a Value

\* What a formatting writes: the text, character by character.
Text(chars) == [tag |-> "Text", chars |-> chars]
\* ... or the digits of an f64 that is not the number it was computed for.
Inexact == [tag |-> "Inexact"]

DigitChars == <<"0", "1", "2", "3", "4", "5", "6", "7", "8", "9">>
Zeros(n) == [i \in 1..n |-> "0"]

\* The decimal digits of -n for n <= 0 (none for 0); the i32 range has one
\* number more below 0 than above.
RECURSIVE NegDigits(_)
NegDigits(n) ==
    IF n = 0 THEN <<>>
    ELSE LET m == n % 10
         IN  IF m = 0 THEN Append(NegDigits(n \div 10), "0")
             ELSE Append(NegDigits((n \div 10) + 1), DigitChars[(10 - m) + 1])
Magnitude(v) == IF v = 0 THEN <<"0">> ELSE NegDigits(IF v > 0 THEN -v ELSE v)
Sign(v) == IF v < 0 THEN <<"-">> ELSE <<>>

\* `{}` of an i32.
Display(v) == Sign(v) \o Magnitude(v)

\* A natural number of any size: limbs of 15 bits, the lowest first, no
\* leading zero limb.
RECURSIVE BigOfNat(_)
BigOfNat(n) == IF n = 0 THEN <<>> ELSE <<n % HalfLimb>> \o BigOfNat(n \div HalfLimb)
RECURSIVE BigTimesSmall(_, _, _)
BigTimesSmall(a, k, carry) ==
    IF a = <<>> THEN BigOfNat(carry)
    ELSE LET t == a[1] * k + carry
         IN  <<t % HalfLimb>> \o BigTimesSmall(Tail(a), k, t \div HalfLimb)

\* Whether a natural number fits the 53-bit significand of an f64.
FitsSignificand(a) == Len(a) < 4 \/ (Len(a) = 4 /\ a[4] < 2^8)

\* a * 5^s, or a smaller multiple of a that has left the significand already.
RECURSIVE BigTimesPowerOf5(_, _)
BigTimesPowerOf5(a, s) ==
    IF s = 0 \/ ~FitsSignificand(a) THEN a
    ELSE BigTimesPowerOf5(BigTimesSmall(a, 5, 0), s - 1)

\* The odd part of n # 0, for n <= 0 (negated).
RECURSIVE OddPart(_)
OddPart(n) == IF n % 2 = 0 THEN OddPart(n \div 2) ELSE -n

\* `v as f64 * 10f64.powi(s as i32)` for s >= 0: whether the product is
\* v * 10^s.  It is when v * 10^s is a value of f64, that is when the odd part
\* of |v| * 5^s has at most 53 bits: then s <= 22, 10^s and every power of 10
\* below it is a value of f64, and each multiplication is exact.  It is not
\* otherwise, whatever powi and the multiplication round to.
ProductIsExact(v, s) ==
    \/ v = 0
    \/ LET odd == OddPart(IF v > 0 THEN -v ELSE v)
       IN  FitsSignificand(BigTimesPowerOf5(BigOfNat(odd), s))

\* `{:.k}` of `v as f64 * 10f64.powi(-k)`, k >= 1.  The f64 lies within a few
\* units of 2^-53, relative, of v / 10^k and |v| < 2^31, so the nearest number
\* of k fractional digits is v / 10^k itself: the digits of |v| with the point
\* k digits from the right.
Fixed(v, k) ==
    LET digits == Magnitude(v)
        padded == Zeros((k + 1) - Len(digits)) \o digits
    IN  Sign(v) \o SubSeq(padded, 1, Len(padded) - k) \o <<".">>
           \o SubSeq(padded, Len(padded) - k + 1, Len(padded))

\* <Value as Debug>::fmt.  The precision `-s` is an i8: for s = -128 it fails
\* the overflow check, or wraps to -128 and becomes, as usize, a precision of
\* 2^64 - 128 digits that no formatter writes out.
fmt(value, checks) ==
    CASE value.tag = "Missing" -> Text(<<"M", "i", "s", "s", "i", "n", "g">>)
      [] value.tag = "Integer" -> Text(Display(value.v))
      [] value.tag = "String" -> Text(<<"\"">> \o value.s \o <<"\"">>)
      [] value.tag = "Decimal" ->
            IF value.s < 0
            THEN IF I8Neg(value.s).overflow
                 THEN Panic(IF checks THEN "i8 neg" ELSE "precision")
                 ELSE Text(Fixed(value.v, I8Neg(value.s).wrapped))
            ELSE IF ~ProductIsExact(value.v, value.s) THEN Inexact
            ELSE IF value.v = 0 THEN Text(<<"0">>)
            ELSE Text(Display(value.v) \o Zeros(value.s))

\* The values given to the formatter: every exponent of an i8, mantissas at
\* the ends and in the middle of the i32 range, texts with and without
\* characters.
FmtValues ==
    {Missing, String(<<>>), String(<<"H", "e", "l", "l", "o">>)}
        \cup {Integer(v) : v \in {MinI32, -1, 0, 42, MaxI32}}
        \cup {Decimal(m, e) : m \in {MinI32, -1234, -1, 0, 1, 1234, MaxI32}, e \in -128..127}

InitFmt ==
    /\ \E v \in FmtValues : formatted = [value |-> v, text |-> NotCalled]
    /\ overflow_checks \in BOOLEAN
    /\ data_spec = NotCalled
    /\ dds = NotCalled
    /\ resolution = NotCalled
    /\ NoReader
    /\ construction = NotCalled
    /\ end_section = NotCalled

\* The caller formats the value with {:?}.
Fmt ==
    /\ formatted.text = NotCalled
    /\ formatted' = [formatted EXCEPT !.text = fmt(formatted.value, overflow_checks)]
    /\ UNCHANGED <<data_spec, overflow_checks, current_subset_idx, bitpos, stack,
                   temporary_operator, scale_offset, events, panic, stream_ended, monitor,
                   eofReads, construction, dds, resolution, end_section>>

NextFmt == Fmt

SpecFmt == InitFmt /\ [][NextFmt]_vars

\* ------------------------------------------------ constructing a reader

\* three_bytes_to_u32, as u32 limbs.
three_bytes_to_u32(bytes) == Wide(bytes[1], bytes[2] * 2^8 + bytes[3])

\* DataSectionHeader read from four octets: the length, the fourth octet
\* skipped by pad_after.
DataSectionHeader(octets) == [section_length |-> three_bytes_to_u32(octets)]

\* A reader that takes the length of the header as the end of its stream.
new_DataReader_bounded(spec, data_section_header) ==
    [data_spec |-> spec, current_subset_idx |-> 0, bitpos |-> 0,
     stream_ended |-> (data_section_header.section_length = Wide(0, 0)),
     stack |-> <<>>, temporary_operator |-> <<>>, scale_offset |-> 0]

\* The DataReader that DataReader::new builds; bitpos and stream_ended are its
\* BitReader.
new_DataReader(spec, data_section_header) ==
    [data_spec |-> spec, current_subset_idx |-> 0, bitpos |-> 0, stream_ended |-> FALSE,
     stack |-> <<>>, temporary_operator |-> <<>>, scale_offset |-> 0]

\* The octets a byte stream may start with.
HeaderOctets == {0, 1, 255}

InitNew ==
    /\ \E i \in 1..Len(Structures), n \in 0..MaxSubsets, c \in BOOLEAN :
            data_spec = DataSpec(n, c, Structures[i])
    /\ overflow_checks \in BOOLEAN
    /\ \E octets \in Lists(HeaderOctets, 4) :
            construction = [octets |-> octets, position |-> 0, result |-> "None"]
    /\ NoReader
    /\ dds = NotCalled
    /\ resolution = NotCalled
    /\ formatted = NotCalled
    /\ end_section = NotCalled

\* DataReader::new.  The three length octets are read; the reserved octet is
\* skipped, which a stream that ends before it may or may not refuse.
New ==
    /\ construction.result = "None"
    /\ \/ /\ Len(construction.octets) >= 3
          /\ LET r == new_DataReader(data_spec, DataSectionHeader(construction.octets))
             IN  /\ current_subset_idx' = r.current_subset_idx
                 /\ bitpos' = r.bitpos
                 /\ stream_ended' = r.stream_ended
                 /\ stack' = r.stack
                 /\ temporary_operator' = r.temporary_operator
                 /\ scale_offset' = r.scale_offset
          /\ events' = <<>>
          /\ panic' = ""
          /\ monitor' = NoEvents
          /\ eofReads' = 0
          /\ construction' = [construction EXCEPT !.position = 4, !.result = "Ok"]
       \/ /\ Len(construction.octets) <= 3
          /\ construction' = [construction EXCEPT !.position = Len(construction.octets),
                                                  !.result = "Err"]
          /\ UNCHANGED <<current_subset_idx, bitpos, stream_ended, stack, temporary_operator,
                         scale_offset, events, panic, monitor, eofReads>>
    /\ UNCHANGED <<data_spec, overflow_checks, dds, resolution, formatted, end_section>>

NextNew == New

SpecNew == InitNew /\ [][NextNew]_vars

\* ------------------------------------------------------- the end section

\* The octet b'7'.
Seven == 55

\* read_exact of n octets at position pos of a byte stream: the octets, or
\* the UnexpectedEof error of a stream that ends before them.
read_exact(octets, pos, n) ==
    IF pos + n <= Len(octets)
    THEN [ok |-> TRUE, buf |-> SubSeq(octets, pos + 1, pos + n), pos |-> pos + n]
    ELSE [ok |-> FALSE, buf |-> <<>>, pos |-> Len(octets)]

\* What ensure_end_section returns, and where it leaves the stream.
Ended(result, pos) == [result |-> result, position |-> pos]
InvalidEndSection == [tag |-> "Err", kind |-> "Fatal", message |-> "Invalid end section"]

\* The last four octets of ensure_end_section: the magic "7777".
end_magic(octets, pos) ==
    LET r == read_exact(octets, pos, 4)
    IN  IF ~r.ok THEN Ended(Err("Io"), r.pos)
        ELSE IF r.buf # <<Seven, Seven, Seven, Seven>> THEN Ended(InvalidEndSection, r.pos)
        ELSE Ended(Ok(<<>>), r.pos)

\* ensure_end_section.  In edition 3 one octet is read first: a zero is the
\* padding; a '7' must be followed by "777"; after either, as in every other
\* edition, four more octets are read and must be "7777".
ensure_end_section(edition, octets) ==
    IF edition = 3
    THEN LET first == read_exact(octets, 0, 1)
         IN  IF ~first.ok THEN Ended(Err("Io"), first.pos)
             ELSE IF first.buf[1] = 0 THEN end_magic(octets, first.pos)
             ELSE IF first.buf[1] = Seven
             THEN LET rest == read_exact(octets, first.pos, 3)
                  IN  IF ~rest.ok THEN Ended(Err("Io"), rest.pos)
                      ELSE IF rest.buf # <<Seven, Seven, Seven>>
                           THEN Ended(InvalidEndSection, rest.pos)
                      ELSE end_magic(octets, rest.pos)
             ELSE Ended(InvalidEndSection, first.pos)
    ELSE end_magic(octets, 0)

\* The octets of a stream after the data section: the padding, the '7' of
\* the magic, another octet; the streams have up to MaxEndOctets octets.
EndOctets == {0, Seven, 1}
MaxEndOctets == 8

\* The edition numbers the header reader accepts, and two it does not.
Editions == {2, 3, 4, 5}

InitEnd ==
    /\ \E edition \in Editions, octets \in Lists(EndOctets, MaxEndOctets) :
            end_section = [edition |-> edition, octets |-> octets, result |-> NotCalled]
    /\ overflow_checks \in BOOLEAN
    /\ data_spec = NotCalled
    /\ dds = NotCalled
    /\ resolution = NotCalled
    /\ formatted = NotCalled
    /\ construction = NotCalled
    /\ NoReader

\* The caller checks the end of the message.
EnsureEndSection ==
    /\ end_section.result = NotCalled
    /\ end_section' = [end_section EXCEPT
                          !.result = ensure_end_section(end_section.edition, end_section.octets)]
    /\ UNCHANGED <<data_spec, overflow_checks, current_subset_idx, bitpos, stack,
                   temporary_operator, scale_offset, events, panic, stream_ended, monitor,
                   eofReads, construction, dds, resolution, formatted>>

NextEnd == EnsureEndSection

SpecEnd == InitEnd /\ [][NextEnd]_vars

\* ------------------------------------------------------------ the claims

\* Every call is the last call of some reachable state, so a property stated
\* of the last call (or of the trace up to it) in every reachable state is a
\* property of every call of every run.
Last == events[Len(events)]
Called == events # <<>>
ErrorFree == ~monitor.errors /\ panic = ""
Tags == [i \in 1..Len(events) |-> events[i].ev.tag]

\* C1: in an error-free run the events of every replication are bracketed:
\* ReplicationStart{count = k}, then exactly k ReplicationItemStart /
\* ReplicationItemEnd pairs that enclose all events of the children, then
\* ReplicationEnd (for k = 0 the very next event), before the enclosing block
\* or subset ends; for fixed and delayed replication, at any nesting depth.
C1_ReplicationBracketed == ErrorFree => monitor.bad \notin {"Replication", "Both"}

\* A finished error-free run that went through a delayed replication of two
\* items holding a nested delayed replication, one with no item and one with
\* an item.
C1_Witness ==
    /\ ErrorFree
    /\ Called
    /\ Last.ev.tag \in {"SubsetEnd", "Eof"}
    /\ monitor.open = <<>>
    /\ \E i \in 1..(Len(events) - 1) :
         /\ events[i].ev.tag = "ReplicationStart"
         /\ events[i].desc.y = 0
         /\ events[i].ev.count = 0
         /\ events[i + 1].ev.tag = "ReplicationEnd"
    /\ \E i \in 1..Len(events) :
         /\ events[i].ev.tag = "ReplicationStart"
         /\ events[i].desc.y = 0
         /\ events[i].ev.count = 2
         /\ events[i].desc.descriptors[1].kind = "Replication"
    /\ Cardinality({i \in 1..Len(events) : Tags[i] = "ReplicationItemEnd"}) >= 3

\* C2: in an error-free run every SequenceStart is closed by exactly one
\* SequenceEnd, blocks are closed innermost first, and a SequenceEnd closes a
\* sequence: never a replication, never the subset.
C2_SequenceNested == ErrorFree => monitor.bad \notin {"Sequence", "Both"}

\* A SequenceEnd that closes a sequence nested in two replications nested in
\* a sequence.
C2_Witness ==
    /\ ErrorFree
    /\ Called
    /\ Last.ev.tag = "SequenceEnd"
    /\ monitor.bad = ""
    /\ Len(monitor.open) = 4
    /\ monitor.open[2].type = "Sequence"
    /\ monitor.open[4].type = "Replication"

\* The subset-level events of the trace, in order.
SubsetLevel(ev) == ev.tag \in {"SubsetStart", "SubsetEnd", "Eof"}
SubsetEvents == SelectSeq([i \in 1..Len(events) |-> events[i].ev], SubsetLevel)
ExpectedSubsetEvent(j, n) ==
    IF j > 2 * n THEN Eof
    ELSE IF j % 2 = 1 THEN SubsetStart((j - 1) \div 2) ELSE SubsetEnd

\* C3: not compressed, no errors: the subset-level events are SubsetStart(0),
\* SubsetEnd, SubsetStart(1), SubsetEnd, ..., SubsetStart(N - 1), SubsetEnd and
\* then Eof, N being number_of_subsets.
C3_SubsetsInOrder ==
    (~data_spec.is_compressed /\ ErrorFree /\ Called /\ SubsetLevel(Last.ev)) =>
        \A j \in 1..Len(SubsetEvents) :
            SubsetEvents[j] = ExpectedSubsetEvent(j, data_spec.number_of_subsets)

\* The Eof that follows the second of two subsets, each with events inside.
C3_Witness ==
    /\ ~data_spec.is_compressed
    /\ ErrorFree
    /\ data_spec.number_of_subsets = 2
    /\ Called
    /\ Last.ev.tag = "Eof"
    /\ Len(SubsetEvents) = 5
    /\ Len(events) > 7

\* C4: a read_event call made after one that returned Eof returns Eof and
\* leaves the stack (empty), the subset counter, scale_offset, the temporary
\* operator and the bit position as they were; compressed or not.
C4_EofIdempotent ==
    [][(Called /\ Last.ev.tag = "Eof") =>
         /\ events'[Len(events')].ev.tag = "Eof"
         /\ stack = <<>>
         /\ UNCHANGED <<stack, current_subset_idx, scale_offset, temporary_operator, bitpos>>]_vars

\* A compressed run, with a scale offset and a temporary operator set and bits
\* read, whose last two calls returned Eof.
C4_Witness ==
    /\ data_spec.is_compressed
    /\ Len(events) > 2
    /\ Last.ev.tag = "Eof"
    /\ events[Len(events) - 1].ev.tag = "Eof"
    /\ scale_offset # 0
    /\ temporary_operator # <<>>

\* The original statement of C5: the first event is SubsetStart(0) or
\* CompressedStart for every number_of_subsets.
C5_FirstEventAnyCount ==
    Len(events) = 1 =>
        Last.ev = IF data_spec.is_compressed THEN CompressedStart ELSE SubsetStart(0)

\* C5, amended: the first event of a fresh DataReader is CompressedStart when
\* the message is compressed, SubsetStart(0) when it is not compressed and
\* number_of_subsets >= 1, and Eof when it is not compressed and
\* number_of_subsets = 0; for every root descriptor list.
C5_FirstEvent ==
    Len(events) = 1 =>
        Last.ev = IF data_spec.is_compressed THEN CompressedStart
                  ELSE IF data_spec.number_of_subsets = 0 THEN Eof
                  ELSE SubsetStart(0)

\* The first call on a message of two subsets, not compressed, with
\* descriptors to decode.
C5_Witness ==
    /\ Len(events) = 1
    /\ ~data_spec.is_compressed
    /\ data_spec.number_of_subsets = 2
    /\ data_spec.root_descriptors # <<>>
    /\ Last.ev = SubsetStart(0)
    /\ stack # <<>>

\* C6: a CompressedData event carries exactly number_of_subsets values,
\* whether nbinc is 0 or not.
C6_CompressedDataLength ==
    (Called /\ Last.ev.tag = "CompressedData") =>
        Len(Last.ev.values) = data_spec.number_of_subsets

\* Two subsets: a CompressedData read with nbinc > 0 after one read with
\* nbinc = 0.
C6_Witness ==
    /\ Called
    /\ data_spec.number_of_subsets = 2
    /\ Last.ev.tag = "CompressedData"
    /\ Last.reads[2].val.lo > 0
    /\ Len(Last.reads) = 4
    /\ \E i \in 1..(Len(events) - 1) :
         /\ events[i].ev.tag = "CompressedData"
         /\ events[i].reads[2].val.lo = 0

\* C7: in compressed mode CompressedStart is the first event and only the
\* first; a call that handles a Table B element and returns an event returns
\* CompressedData, and no other call does; no event is SubsetStart, SubsetEnd
\* or Data; the stack empties only with Eof, whatever number_of_subsets is.
C7_CompressedStream ==
    (data_spec.is_compressed /\ Called) =>
        /\ Last.ev.tag \notin {"SubsetStart", "SubsetEnd", "Data"}
        /\ (Last.ev.tag = "CompressedStart") <=> (Len(events) = 1)
        /\ (Last.ev.tag = "CompressedData") <=> (Last.desc.kind = "Data" /\ Last.ev.tag # "Err")
        /\ (stack = <<>>) => (Last.ev.tag = "Eof")

\* A compressed message of two subsets decoded to its Eof, with CompressedData
\* events on the way.
C7_Witness ==
    /\ data_spec.is_compressed
    /\ data_spec.number_of_subsets = 2
    /\ ErrorFree
    /\ Called
    /\ Last.ev.tag = "Eof"
    /\ stack = <<>>
    /\ Cardinality({i \in 1..Len(events) : Tags[i] = "CompressedData"}) = 2

\* Bit k of a u32, and the u32 whose set bits are exactly the w lowest.
Bit(u, k) == IF k < 16 THEN (u.lo \div 2^k) % 2 ELSE (u.hi \div 2^(k - 16)) % 2
IsSentinel(u, w) == \A k \in 0..31 : Bit(u, k) = IF k < w THEN 1 ELSE 0

\* A call that returned the value(s) of a numeric element; the values, and
\* the raw field behind value i as the stream gave it.
IsNumericCall(c) == c.ev.tag \in {"Data", "CompressedData"} /\ c.desc.b.bits <= 32
ValuesOf(c) == IF c.ev.tag = "Data" THEN <<c.ev.value>> ELSE c.ev.values
RawOf(c, i) ==
    IF c.ev.tag = "Data" \/ c.reads[2].val.lo = 0 THEN c.reads[1].val
    ELSE U32Add(c.reads[1].val, c.reads[2 + i].val).wrapped

\* C8: not compressed, a numeric element of width w in 1..32: the Data value is
\* Missing if and only if all w bits of the raw field are set.
C8_MissingIffAllOnes ==
    (Called /\ Last.ev.tag = "Data" /\ Last.desc.b.bits \in 1..32) =>
        (Last.ev.value.tag = "Missing") <=> IsSentinel(Last.reads[1].val, Last.desc.b.bits)

\* A 32-bit field read as 0xFFFFFFFF and returned as Missing.
C8_Witness ==
    /\ Called
    /\ Last.ev.tag = "Data"
    /\ Last.desc.b.bits = 32
    /\ Last.reads[1].val = Wide(Limb - 1, Limb - 1)
    /\ Last.ev.value = Missing

\* C9: a decoded value is Integer if and only if table scale + scale_offset is
\* 0 and the raw field is not the sentinel; it is Decimal when the sum is not
\* 0 and the raw field is not the sentinel.
C9_IntegerIffScaleZero ==
    (Called /\ IsNumericCall(Last)) =>
        \A i \in 1..Len(ValuesOf(Last)) :
            LET v == ValuesOf(Last)[i]
                sum == Last.desc.b.scale + scale_offset
                sentinel == IsSentinel(RawOf(Last, i), Last.desc.b.bits)
            IN  /\ (v.tag = "Integer") <=> (sum = 0 /\ ~sentinel)
                /\ (sum # 0 /\ ~sentinel) => (v.tag = "Decimal")

\* An Integer decoded under a table scale of 1 cancelled by operator (2, 127).
C9_Witness ==
    /\ Called
    /\ Last.ev.tag = "Data"
    /\ Last.desc.b.scale = 1
    /\ scale_offset = -1
    /\ Last.ev.value.tag = "Integer"

\* C10: the numeric part of every Integer or Decimal is raw + reference
\* computed in 64 bits and narrowed to i32, and no 32-bit addition of raw and
\* reference overflows or aborts.
C10_SumIn64Bits ==
    /\ panic # "i32 add"
    /\ (Called /\ IsNumericCall(Last)) =>
          \A i \in 1..Len(ValuesOf(Last)) :
              LET v == ValuesOf(Last)[i]
              IN  v.tag \in {"Integer", "Decimal"} =>
                      v.v = WideAsI32(WideAdd(RawOf(Last, i),
                                              WideOfI32(Last.desc.b.reference_value)))

\* The call a step makes: the last call of the state the step leads to.
Returned == events'[Len(events')]
CallsOperator == events' # events /\ Returned.desc.kind = "Operator"

\* The scale offset in force according to the events returned so far: that of
\* the last OperatorHandled with x = 2 (0 when its value is 0, value - 128
\* otherwise), 0 when there has been none.
ScaleOperators == {i \in 1..Len(events) : Tags[i] = "OperatorHandled" /\ events[i].ev.x = 2}
OffsetInForce ==
    IF ScaleOperators = {} THEN 0
    ELSE LET i == CHOOSE i \in ScaleOperators : \A j \in ScaleOperators : j <= i
             y == events[i].ev.value
         IN  IF y = 0 THEN 0 ELSE y - 128

\* C11: the call that handles operator (2, Y) sets scale_offset to 0 when Y = 0
\* and to Y - 128 otherwise, reads no bit, leaves the depth of the stack as it
\* was and returns OperatorHandled{idx, x: 2, value: Y}; the offset it sets
\* stays in force until the next operator with X = 2 and is the one added to
\* the table scale of every numeric element decoded meanwhile.
C11_ScaleOperator ==
    /\ [][(CallsOperator /\ Returned.desc.xy.x = 2) =>
            LET y == Returned.desc.xy.y
            IN  /\ Returned.ev = OperatorHandled(Top.next, 2, y)
                /\ scale_offset' = IF y = 0 THEN 0 ELSE y - 128
                /\ bitpos' = bitpos
                /\ Len(stack') = Len(stack)]_vars
    /\ [](/\ scale_offset = OffsetInForce
          /\ (Called /\ IsNumericCall(Last)) =>
                LET sum == Last.desc.b.scale + OffsetInForce
                IN  \A i \in 1..Len(ValuesOf(Last)) :
                        LET v == ValuesOf(Last)[i]
                        IN  (v.tag # "Missing" /\ sum \in -127..127) =>
                                v.tag = IF sum = 0 THEN "Integer" ELSE "Decimal")

\* Operator (2, 127) lowered the offset to -1, operator (2, 0) then reset it,
\* and an element was decoded after the reset.
C11_Witness ==
    /\ Called
    /\ Cardinality(ScaleOperators) = 2
    /\ \E i \in ScaleOperators : events[i].ev.value = 127
    /\ scale_offset = 0
    /\ Last.ev.tag = "Data"

\* C12: the element decoded right after operator (6, Y) is read with Y bits
\* instead of the width of its Table B entry, and decoding it clears the
\* temporary operator.
C12_WidthOverride ==
    (/\ Len(events) >= 2
     /\ events[Len(events) - 1].ev.tag = "OperatorHandled"
     /\ events[Len(events) - 1].ev.x = 6
     /\ Last.ev.tag = "Data"
     /\ Last.desc.b.bits <= 32) =>
        /\ Last.reads[1].bits = events[Len(events) - 1].ev.value
        /\ temporary_operator = <<>>

\* C13: the call that meets an operator with X other than 2 and 6 returns the
\* NotSupported error (so no OperatorHandled event) and leaves scale_offset,
\* the temporary operator, the bit position and the depth of the stack as they
\* were.
C13_OtherOperator ==
    [][(CallsOperator /\ Returned.desc.xy.x \notin {2, 6}) =>
          /\ Returned.ev = Err("NotSupported")
          /\ scale_offset' = scale_offset
          /\ temporary_operator' = temporary_operator
          /\ bitpos' = bitpos
          /\ Len(stack') = Len(stack)]_vars

\* An operator with X = 63 refused while a scale offset and a temporary
\* operator were in force.
C13_Witness ==
    /\ Called
    /\ Last.desc.kind = "Operator"
    /\ Last.desc.xy.x = 63
    /\ Last.ev = Err("NotSupported")
    /\ scale_offset = 1
    /\ temporary_operator = <<XY(6, 4)>>

\* C14: compressed, an element whose width is above 32 and a multiple of 8,
\* the stream holding the octets of the field: the call returns the
\* NotSupported error whatever those octets are.
C14_CompressedString ==
    (/\ Called
     /\ data_spec.is_compressed
     /\ Last.desc.kind = "Data"
     /\ Last.desc.b.bits > 32
     /\ Last.desc.b.bits % 8 = 0
     /\ Last.ev # Err("Io")) =>
        Last.ev = Err("NotSupported")

\* The value the compressed rule gives to a raw sum r: Missing when r is
\* 2^w - 1, else r + ref (narrowed to the 32 bits a value holds) as an Integer
\* when the scale is 0 and as a Decimal of exponent -scale otherwise.
C15_Rule(w, ref, scale, r) ==
    LET total == WideAsI32(WideAdd(r, WideOfI32(ref)))
    IN  IF r = AllOnes(w) THEN Missing
        ELSE IF scale = 0 THEN Integer(total)
        ELSE Decimal(total, -scale)

\* C15: compressed, a numeric element: whatever local_ref (w bits), nbinc (6
\* bits, 0..63) and increments (nbinc bits each) the stream holds, the call
\* returns CompressedData whose value i is the rule applied to local_ref when
\* nbinc = 0 and to local_ref + inc_i otherwise; it fails only when the
\* stream ends, and it does not abort.
C15_CompressedRule ==
    /\ data_spec.is_compressed => panic = ""
    /\ (/\ Called
        /\ data_spec.is_compressed
        /\ Last.desc.kind = "Data"
        /\ Last.desc.b.bits <= 32) =>
          /\ Last.ev.tag = "Err" => stream_ended
          /\ Last.ev.tag = "CompressedData" =>
               \A i \in 1..Len(Last.ev.values) :
                   LET nbinc == Last.reads[2].val.lo
                       r == IF nbinc = 0 THEN Last.reads[1].val
                            ELSE WideAdd(Last.reads[1].val, Last.reads[2 + i].val)
                   IN  Last.ev.values[i] =
                           C15_Rule(Last.desc.b.bits, Last.desc.b.reference_value,
                                    Last.desc.b.scale + scale_offset, r)

\* C16: a list resolves with every F = 1 descriptor taking the block that
\* follows it out of the parent list and keeping it, resolved, as its
\* children.  Stated where the block is not empty whichever of X and Y counts
\* its descriptors: the resolved list is then shorter than the raw list and
\* the Replication node has children.
C16_ReplicationGrouped ==
    (resolution # NotCalled /\ resolution.tag = "Ok") =>
        \A i \in 1..(Len(dds.descriptors) - 1) :
            LET desc == dds.descriptors[i]
            IN  (/\ desc.f = 1 /\ desc.x >= 1 /\ desc.y >= 1
                 /\ \A j \in 1..(i - 1) : dds.descriptors[j].f # 1) =>
                    /\ Len(resolution.value) < Len(dds.descriptors)
                    /\ "descriptors" \in DOMAIN resolution.value[i]
                    /\ resolution.value[i].descriptors # <<>>

\* Whether resolution meets an element missing from Table B or a sequence
\* missing from Table D, at the top or inside a Table D expansion.
RECURSIVE MissingEntry(_)
MissingEntry(descriptors) ==
    \E i \in 1..Len(descriptors) :
        LET desc == descriptors[i]
            key == DescriptorXY(desc)
        IN  \/ desc.f = 0 /\ key \notin DOMAIN Tables.table_b
            \/ desc.f = 3 /\ key \notin DOMAIN Tables.table_d
            \/ desc.f = 3 /\ key \in DOMAIN Tables.table_d
                          /\ MissingEntry(Tables.table_d[key].elements)

\* C17: when an element of the list has no Table B entry or a sequence has no
\* Table D entry, at any depth of the Table D expansions, resolve_descriptors
\* returns a Fatal error and no list, and from_data_description returns that
\* same error and no DataSpec; a list of descriptors with F in 0..3 that
\* misses no entry resolves.
C17_ResolutionFatal ==
    resolution # NotCalled =>
        /\ MissingEntry(dds.descriptors) =>
              /\ resolution.tag = "Err"
              /\ resolution.kind = "Fatal"
              /\ "value" \notin DOMAIN resolution
              /\ data_spec = resolution
        /\ (~MissingEntry(dds.descriptors) /\ \A i \in 1..Len(dds.descriptors) :
                                                 dds.descriptors[i].f <= 3) =>
              /\ resolution.tag = "Ok"
              /\ data_spec.tag = "Ok"

\* A list whose descriptors all have entries, the failure two levels down in
\* the expansion of 3-01-004.
C17_Witness ==
    /\ resolution # NotCalled
    /\ dds.descriptors = <<Descriptor(0, 1, 1), Descriptor(3, 1, 4)>>
    /\ resolution = Fatal("Table B entry not found", XY(9, 9))
    /\ data_spec = resolution

\* The numeral of m * 10^e with max(0, -e) fractional digits.
C18_Numeral(m, e) ==
    LET digits == Magnitude(m)
    IN  IF e >= 0 THEN Sign(m) \o (IF m = 0 THEN digits ELSE digits \o Zeros(e))
        ELSE LET whole == IF Len(digits) > -e THEN SubSeq(digits, 1, Len(digits) + e)
                          ELSE <<"0">>
                 fraction == IF Len(digits) > -e
                             THEN SubSeq(digits, Len(digits) + e + 1, Len(digits))
                             ELSE Zeros((-e) - Len(digits)) \o digits
             IN  Sign(m) \o whole \o <<".">> \o fraction

\* C18: the text of Decimal(m, s) is the numeral of m * 10^s with exactly
\* max(0, -s) fractional digits, the text of Missing is Missing, of Integer(v)
\* the decimal digits of v, of String(t) t between double quotes.
C18_FormattedText ==
    (formatted # NotCalled /\ formatted.text # NotCalled) =>
        LET value == formatted.value
        IN  formatted.text =
                Text(CASE value.tag = "Missing" -> <<"M", "i", "s", "s", "i", "n", "g">>
                       [] value.tag = "Integer" -> Display(value.v)
                       [] value.tag = "String" -> <<"\"">> \o value.s \o <<"\"">>
                       [] value.tag = "Decimal" -> C18_Numeral(value.v, value.s))

\* The call that decodes, not compressed and under no scale offset, the 16-bit
\* element of table scale -2 and reference 0 from the raw value 1234.
C19_Scenario ==
    /\ Called
    /\ Last.ev.tag = "Data"
    /\ Last.desc.b.bits = 16
    /\ Last.desc.b.scale = -2
    /\ Last.desc.b.reference_value = 0
    /\ scale_offset = 0
    /\ Last.reads = <<ReadOf(16, Wide(0, 1234))>>

\* C19, as stated: the call returns the value Decimal(1234, 2), and that
\* value formats as 12.34.
C19_FormatsAsHundredths ==
    C19_Scenario =>
        /\ Last.ev.value = Decimal(1234, 2)
        /\ fmt(Last.ev.value, overflow_checks) = Text(<<"1", "2", ".", "3", "4">>)

\* C19, amended: the call returns the value Decimal(1234, 2), and that value
\* formats as 123400.
C19_FormatsAsHundreds ==
    C19_Scenario =>
        /\ Last.ev.value = Decimal(1234, 2)
        /\ fmt(Last.ev.value, overflow_checks) = Text(<<"1", "2", "3", "4", "0", "0">>)

\* The element decoded from 1234 in the second subset of a message.
C19_Witness ==
    /\ C19_Scenario
    /\ current_subset_idx = 2
    /\ Last.ev.value.tag = "Decimal"

MagicAt(octets, pos) ==
    /\ Len(octets) >= pos + 4
    /\ SubSeq(octets, pos + 1, pos + 4) = <<Seven, Seven, Seven, Seven>>

\* The streams the end section is found in: "7777" at the current position,
\* or in edition 3 one zero octet and then "7777".
HoldsEndSection(edition, octets) ==
    \/ MagicAt(octets, 0)
    \/ edition = 3 /\ Len(octets) >= 1 /\ octets[1] = 0 /\ MagicAt(octets, 1)

\* C21: ensure_end_section succeeds exactly when the stream holds "7777" at
\* the current position or, in edition 3 only, one zero padding octet followed
\* by "7777" (an edition-3 stream "7777" with nothing after it included); any
\* other stream gives the Fatal "Invalid end section" error, or an I/O error
\* when it is too short to hold the end section.
C21_EndSection ==
    end_section.result # NotCalled =>
        LET edition == end_section.edition
            octets == end_section.octets
            result == end_section.result.result
        IN  IF HoldsEndSection(edition, octets) THEN result = Ok(<<>>)
            ELSE \/ result = InvalidEndSection
                 \/ result = Err("Io") /\ Len(octets) < (IF edition = 3 THEN 5 ELSE 4)

\* An edition-3 stream that is "7777" and nothing more has been checked.
C21_Unpadded ==
    /\ end_section.result # NotCalled
    /\ end_section.edition = 3
    /\ end_section.octets = <<Seven, Seven, Seven, Seven>>

\* The calls of the subset being decoded: those after its SubsetStart.
SubsetStarts == {i \in 1..Len(events) : Tags[i] = "SubsetStart"}
ThisSubset ==
    IF SubsetStarts = {} THEN {}
    ELSE {i \in 1..Len(events) : \A j \in SubsetStarts : j < i}

\* C22: not compressed, the decoder never resets scale_offset itself: only a
\* call that handles an operator (2, Y) changes it, so the offset of the last
\* such operator is in force after SubsetEnd and the following SubsetStart and
\* is the one applied to the elements of a later subset that come before any
\* operator (2, Y) of that subset.
C22_OffsetPersists ==
    /\ [][(~data_spec.is_compressed /\ scale_offset' # scale_offset) =>
            /\ CallsOperator
            /\ Returned.desc.xy.x = 2
            /\ Returned.ev.tag = "OperatorHandled"]_vars
    /\ [](~data_spec.is_compressed /\ Called =>
            /\ Last.ev.tag \in {"SubsetStart", "SubsetEnd"} => scale_offset = OffsetInForce
            /\ (Last.ev.tag = "Data" /\ Last.desc.b.bits <= 32) =>
                    LET sum == Last.desc.b.scale + OffsetInForce
                        v == Last.ev.value
                    IN  (v.tag # "Missing" /\ sum \in -127..127) =>
                            IF sum = 0 THEN v.tag = "Integer"
                            ELSE v.tag = "Decimal" /\ v.s = -sum)

\* An element of table scale 0 of the second subset, decoded before any
\* operator (2, Y) of that subset, came out as a Decimal of exponent -1: the
\* offset +1 that operator (2, 129) set in the first subset was applied.
C22_Witness ==
    /\ Called
    /\ ~data_spec.is_compressed
    /\ current_subset_idx = 2
    /\ ThisSubset \cap ScaleOperators = {}
    /\ Last.ev.tag = "Data"
    /\ Last.desc.b.scale = 0
    /\ Last.ev.value.tag = "Decimal"
    /\ Last.ev.value.s = -1

\* C23: after every successful call the stack is non-empty exactly when the
\* decoder is inside a subset (or the compressed block): it is empty before the
\* first call and after each SubsetEnd or Eof, non-empty after every other
\* event, and empty exactly when the events so far have left no block open.
C23_StackIffInSubset ==
    panic = "" =>
        /\ ~Called => stack = <<>>
        /\ (Called /\ Last.ev.tag # "Err") =>
                /\ (stack = <<>>) <=> (Last.ev.tag \in {"SubsetEnd", "Eof"})
                /\ monitor.bad = "" => ((stack = <<>>) <=> (monitor.open = <<>>))

\* The first subset has been closed by SubsetEnd, which left the stack empty
\* (or the call after it would not have been a subset start), and the
\* SubsetStart of the second has made it non-empty again.
C23_Witness ==
    /\ Len(events) >= 2
    /\ ~data_spec.is_compressed
    /\ Last.ev.tag = "SubsetStart"
    /\ events[Len(events) - 1].ev.tag = "SubsetEnd"
    /\ stack # <<>>
    /\ monitor.open # <<>>

\* The events that stand for no field of the stream.
Bitless ==
    {"SubsetStart", "SubsetEnd", "SequenceStart", "SequenceEnd", "ReplicationItemStart",
     "ReplicationItemEnd", "ReplicationEnd", "OperatorHandled", "Eof"}

\* C24: a successful call advances the bit position, not compressed, by w for
\* the Data of a numeric element of width w, by delayed_bits for the
\* ReplicationStart of a delayed replication, by 0 for a ReplicationStart with
\* Y > 0 and for SubsetStart, SubsetEnd, SequenceStart, SequenceEnd,
\* ReplicationItemStart, ReplicationItemEnd, ReplicationEnd, OperatorHandled
\* and Eof; compressed, by w + 6 for a CompressedData with nbinc = 0 and by
\* w + 6 + number_of_subsets * nbinc for one with nbinc > 0.
C24_BitsPerEvent ==
    [][(events' # events /\ Returned.ev.tag # "Err") =>
        LET ev == Returned.ev
            desc == Returned.desc
            advance == bitpos' - bitpos
        IN  /\ ~data_spec.is_compressed =>
                /\ (ev.tag = "Data" /\ desc.b.bits <= 32) => advance = desc.b.bits
                /\ ev.tag = "ReplicationStart" =>
                        advance = IF desc.y = 0 THEN desc.delayed_bits ELSE 0
                /\ ev.tag \in Bitless => advance = 0
            /\ (data_spec.is_compressed /\ ev.tag = "CompressedData") =>
                    LET nbinc == Returned.reads[2].val.lo
                    IN  advance = IF nbinc = 0 THEN desc.b.bits + 6
                                  ELSE desc.b.bits + 6 + data_spec.number_of_subsets * nbinc]_vars

\* Not compressed, four calls: SubsetStart, the ReplicationStart of a delayed
\* replication with a count of 8 bits, its ReplicationEnd and the Data of a
\* one-bit element; the stream is 9 bits further.
C24_Witness ==
    /\ ~data_spec.is_compressed
    /\ Len(events) = 4
    /\ events[2].ev.tag = "ReplicationStart"
    /\ events[2].desc.y = 0
    /\ events[2].desc.delayed_bits = 8
    /\ Last.ev.tag = "Data"
    /\ Last.desc.b.bits = 1
    /\ bitpos = 9

\* C25: for every table scale of an i8 and every scale_offset in -127..127 a
\* non-missing numeric value whose sum of table scale and scale_offset is not
\* 0 is a Decimal whose exponent is exactly minus that sum: neither the sum
\* nor its negation is wrapped or truncated to 8 bits, and the negation of the
\* sum -128 does not abort the program.
C25_ExactExponent ==
    /\ panic # "i8 neg"
    /\ (Called /\ IsNumericCall(Last)) =>
            LET sum == Last.desc.b.scale + scale_offset
            IN  \A i \in 1..Len(ValuesOf(Last)) :
                    LET v == ValuesOf(Last)[i]
                    IN  (v.tag # "Missing" /\ sum # 0) => (v.tag = "Decimal" /\ v.s = -sum)

\* The errors of a descriptor that the decoder itself raises: an operator or
\* a compressed character field it does not support, a width it cannot read,
\* octets that are not UTF-8.
DescriptorError(c) == c.ev.tag = "Err" /\ c.ev.kind \in {"NotSupported", "Fatal"}

\* C26: a call that returns such an error for the descriptor at position i of
\* the top frame leaves the cursor of that frame at i + 1 and every frame in
\* place, none pushed and none popped; the call after it does not meet the
\* failing descriptor again: it dispatches the descriptor at position i + 1
\* of the same frame or, when there is none, closes the frame.
C26_ErrorSkipsDescriptor ==
    /\ [][(events' # events /\ DescriptorError(Returned)) =>
            /\ Returned.desc = Top.descriptors[Top.next + 1]
            /\ stack' = [stack EXCEPT ![Len(stack)].next = Top.next + 1]]_vars
    /\ [][(Called /\ DescriptorError(Last) /\ events' # events) =>
            /\ stack # <<>>
            /\ IF Top.next < Len(Top.descriptors)
               THEN /\ Returned.desc = Top.descriptors[Top.next + 1]
                    /\ Returned.ev.tag # "Err" => Returned.ev.idx = Top.next
               ELSE /\ Returned.desc = NoDescriptor
                    /\ Returned.ev.tag \in {"SubsetEnd", "SequenceEnd", "ReplicationItemEnd", "Eof"}]_vars

\* Operator (1, 0) gave NotSupported and the call after it decoded the
\* element that follows it in the list, at position 3.
C26_Witness ==
    /\ Len(events) >= 2
    /\ events[Len(events) - 1].ev = Err("NotSupported")
    /\ events[Len(events) - 1].desc = Operator(XY(1, 0))
    /\ Last.ev.tag = "Data"
    /\ Last.ev.idx = 3

\* The ways a call makes progress: it starts a subset, pops a frame, moves
\* the cursor of the top frame on by one (pushing a frame or not), starts an
\* item (one item fewer to come, the cursor back at 0), or ends an item.
SubsetStarted == current_subset_idx' = current_subset_idx + 1 /\ Len(stack') = 1
FramePopped == stack # <<>> /\ stack' = Popped
CursorAdvanced ==
    /\ stack # <<>>
    /\ Len(stack') \in {Len(stack), Len(stack) + 1}
    /\ SubSeq(stack', 1, Len(stack)) = Advanced
ItemStarted ==
    /\ stack # <<>>
    /\ Len(stack') = Len(stack)
    /\ Top.entry_type.type = "Replication"
    /\ stack'[Len(stack)].entry_type.remaining = Top.entry_type.remaining - 1
    /\ stack'[Len(stack)].entry_type.in_item
    /\ ~Top.entry_type.in_item
ItemEnded ==
    /\ stack # <<>>
    /\ Len(stack') = Len(stack)
    /\ Top.entry_type.type = "Replication"
    /\ Top.entry_type.in_item
    /\ ~stack'[Len(stack)].entry_type.in_item
    /\ stack'[Len(stack)].entry_type.remaining = Top.entry_type.remaining

\* What is left to do, as a list of numbers: the subsets not yet started,
\* then for every frame from the root up the items to come, whether an item
\* is open, and the descriptors after the cursor.
WorkLeft(stk, idx) ==
    LET subsets == IF data_spec.is_compressed THEN (IF idx > 0 THEN 0 ELSE 1)
                   ELSE data_spec.number_of_subsets - idx
        frame(e) ==
            IF e.entry_type.type = "Replication"
            THEN <<e.entry_type.remaining, IF e.entry_type.in_item THEN 1 ELSE 0,
                   Len(e.descriptors) - e.next>>
            ELSE <<0, 0, Len(e.descriptors) - e.next>>
    IN  [k \in 1..(1 + 3 * Len(stk)) |->
            IF k = 1 THEN subsets ELSE frame(stk[(k + 1) \div 3])[((k - 2) % 3) + 1]]

\* a comes before b in the lexicographic order, a proper prefix first.
LexLess(a, b) ==
    \E k \in 1..Len(b) :
        /\ \A j \in 1..(k - 1) : j <= Len(a) /\ a[j] = b[j]
        /\ k > Len(a) \/ a[k] < b[k]

\* C27: when the caller keeps calling read_event, every run that does not
\* abort reaches Eof after finitely many calls, for every descriptor tree and
\* number of subsets of the model and every input; every call other than the
\* ones answered Eof with an empty stack makes progress: it increments the
\* subset counter, pops a frame, advances a cursor (with or without a push),
\* decrements the remaining count of a replication or clears its in_item.
\* With each such call the work left comes earlier in a well-founded order.
C27_ReachesEof ==
    /\ [][(stack' # stack \/ bitpos' # bitpos \/ events' # events) =>
            \/ /\ \/ SubsetStarted
                  \/ FramePopped
                  \/ CursorAdvanced
                  \/ ItemStarted
                  \/ ItemEnded
               /\ LexLess(WorkLeft(stack', current_subset_idx'),
                          WorkLeft(stack, current_subset_idx))
            \/ stack = <<>> /\ stack' = <<>> /\ Returned.ev = Eof]_vars
    /\ <>(panic # "" \/ (Called /\ Last.ev = Eof))

\* Eof has been returned after two subsets with a delayed replication of two
\* items in the second.
C27_Witness ==
    /\ Called
    /\ Last.ev = Eof
    /\ ~data_spec.is_compressed
    /\ current_subset_idx = 2
    /\ \E i \in ThisSubset : Tags[i] = "ReplicationStart" /\ events[i].desc.y = 0
                                /\ events[i].ev.count = 2
    /\ ~monitor.errors

====
